---- MODULE Spec2Model ----
(***************************************************************************)
(* A model of read_spe.File (src/read_spe/read_spe.py): a reader of SPE    *)
(* 3.0 files that may still be growing while they are read.                *)
(*                                                                         *)
(* The file is the environment: a byte length (fileLen), a binary header   *)
(* (hdr), an optional XML footer (footerText) and a data region of         *)
(* fixed-stride frames.  The session is the File object: its attributes    *)
(* header_metadata, footer_metadata and current_frame_idx, and the         *)
(* position of the call in progress (pc, call).                            *)
(*                                                                         *)
(* Names are resolved to the definitions they evidently denote: the source *)
(* calls self.read_at, self.get_num_frames, self.get_start_offset, ... for *)
(* the methods it defines as _read_at, _get_num_frames, _get_start_offset, *)
(* it reads the class tables (binary_to_ntype, spe_30_required_offsets,    *)
(* num_metadata, ...) without the class prefix, and _get_frame uses the    *)
(* results of the geometry getters as locals of the same names.            *)
(***************************************************************************)
EXTENDS Integers, Sequences, FiniteSets, TLC

VARIABLES
    fileLen,            \* the file: its current length in bytes
    hdr,                \* the file: the values its header stores
    footerText,         \* the file: what follows the XML offset
    sess,               \* the session: "new", "open" or "failed"
    header_metadata,    \* File.header_metadata["Value"], by row offset
    footer_metadata,    \* File.footer_metadata, or "unset" (no attribute)
    header_reads,       \* the _read_at calls of the header row loop, in order
    current_frame_idx,  \* File.current_frame_idx
    pc,                 \* position of the _get_frame call in progress
    call,               \* locals of the _get_frame call in progress
    ret,                \* outcome of the last call the caller made
    held,               \* the frame the caller got from the call before
    fresh,              \* the file is as the last _get_frame call found it
    prevCount,          \* the caller's last two frame counts
    lastCount,
    schema,             \* spe_30_header_format.csv: "ok", "missing", "malformed"
    tempFile,           \* spe_30_header_format_temp.csv is on disk
    stream              \* File._fid: "none", "open" or "closed"

vars == <<fileLen, hdr, footerText, sess, header_metadata, footer_metadata,
          header_reads, current_frame_idx, pc, call, ret, held, fresh, prevCount,
          lastCount, schema, tempFile, stream>>

fileVars == <<fileLen, hdr, footerText>>
sessVars == <<sess, header_metadata, footer_metadata, header_reads>>
countVars == <<prevCount, lastCount>>
resVars == <<schema, tempFile, stream>>

----------------------------------------------------------------------------
(* Bounds of the model.                                                    *)

\* complete frames the writer appends at most (a partial one may follow)
MaxFrames == 2
\* frame indices asked for: -MaxIdx .. MaxIdx
MaxIdx == 2
\* bytes by which a cut may leave the file shorter than the data start
MaxUnder == 1
\* length of the XML footer of a finished file, in bytes
FooterLen == 3
\* creation time of the file, in seconds since the epoch
FileCtime == 1

----------------------------------------------------------------------------
(* Class tables.                                                           *)

bits_per_byte == 8
num_metadata == 3
ticks_per_second == 1000000
NaN == -1

spe_30_required_offsets ==
    <<6, 18, 34, 42, 108, 656, 658, 664, 678, 1446, 1992, 2996, 4098>>

\* bits of the numpy type a binary tag names (binary_to_ntype, ntype_to_bits)
BinaryBits(tag) ==
    CASE tag \in {"8s", "8u"} -> 8
      [] tag \in {"16s", "16u"} -> 16
      [] tag \in {"32s", "32u", "32f"} -> 32
      [] tag \in {"64s", "64u", "64f"} -> 64

\* bits of the numpy type of a pixel datatype code (datatype_to_ntype)
DatatypeBits(code) ==
    CASE code \in {6} -> 8
      [] code \in {3, 2} -> 16
      [] code \in {8, 1, 0} -> 32
      [] code \in {5} -> 64

\* The rows of spe_30_header_format.csv at the required offsets, and three
\* of its other rows: the first of the table, one between two required
\* rows that lie close together, one between two that lie far apart.
HeaderSchema ==
    <<[Offset |-> 0,    Binary |-> "16s", Type_Name |-> "ControllerVersion"],
      [Offset |-> 6,    Binary |-> "16u", Type_Name |-> "xDimDet"],
      [Offset |-> 10,   Binary |-> "32f", Type_Name |-> "exp_sec"],
      [Offset |-> 18,   Binary |-> "16u", Type_Name |-> "yDimDet"],
      [Offset |-> 34,   Binary |-> "16s", Type_Name |-> "noscan"],
      [Offset |-> 42,   Binary |-> "16u", Type_Name |-> "xdim"],
      [Offset |-> 108,  Binary |-> "16s", Type_Name |-> "datatype"],
      [Offset |-> 656,  Binary |-> "16u", Type_Name |-> "ydim"],
      [Offset |-> 658,  Binary |-> "16u", Type_Name |-> "scramble"],
      [Offset |-> 664,  Binary |-> "32s", Type_Name |-> "lnoscan"],
      [Offset |-> 668,  Binary |-> "32s", Type_Name |-> "lavgexp"],
      [Offset |-> 678,  Binary |-> "64u", Type_Name |-> "XMLOffset"],
      [Offset |-> 1446, Binary |-> "32s", Type_Name |-> "NumFrames"],
      [Offset |-> 1992, Binary |-> "32f", Type_Name |-> "file_header_ver"],
      [Offset |-> 2996, Binary |-> "32s", Type_Name |-> "WinView_id"],
      [Offset |-> 4098, Binary |-> "16u", Type_Name |-> "lastvalue"]>>

RowOf(name) == CHOOSE i \in 1..Len(HeaderSchema) : HeaderSchema[i].Type_Name = name
OffsetOf(name) == HeaderSchema[RowOf(name)].Offset
RowAt(offset) == CHOOSE i \in 1..Len(HeaderSchema) : HeaderSchema[i].Offset = offset

Min(a, b) == IF a <= b THEN a ELSE b

----------------------------------------------------------------------------
(* Python's integer arithmetic.                                            *)

\* a // b for b > 0 (the only divisor the code gives it): floor
PyFloorDiv(a, b) == a \div b

\* the remainder a language that truncates towards zero would give
TruncMod(a, b) ==
    LET aa == IF a < 0 THEN -a ELSE a
        bb == IF b < 0 THEN -b ELSE b
    IN  IF a < 0 THEN -(aa % bb) ELSE aa % bb

\* a % b for b # 0: the result has the sign of b
PyMod(a, b) ==
    IF b > 0 THEN a % b
    ELSE -((-a) % (-b))

----------------------------------------------------------------------------
(* The file, as the acquisition software writes it.                        *)

\* byte k (0 = lowest) of the little-endian encoding of v
RECURSIVE ByteOf(_, _)
ByteOf(v, k) == IF k = 0 THEN v % 256 ELSE ByteOf(v \div 256, k - 1)

\* the value a sequence of bytes encodes, little-endian (numpy's decoding)
RECURSIVE DecodeLE(_)
DecodeLE(bytes) ==
    IF bytes = <<>> THEN 0 ELSE Head(bytes) + 256 * DecodeLE(Tail(bytes))

\* where the data region starts in the file: right after the header
FileStart == 4100

\* the file's true stride: one frame of pixels and its three 8-byte metadata
FileFrameBytes == hdr.xdim * hdr.ydim * (DatatypeBits(hdr.datatype) \div 8)
FileStride == FileFrameBytes + 3 * 8

\* the longest file of the model: MaxFrames frames and a partial one
MaxLen == FileStart + (MaxFrames + 1) * FileStride - 1

\* the value the file stores in the header field of a schema row
FieldValue(name) ==
    CASE name = "xdim" -> hdr.xdim
      [] name = "ydim" -> hdr.ydim
      [] name = "datatype" -> hdr.datatype
      [] name = "XMLOffset" -> hdr.XMLOffset
      [] name = "file_header_ver" -> 3
      [] OTHER -> 0

HeaderByte(p) ==
    LET rows == {i \in 1..Len(HeaderSchema) :
                    /\ HeaderSchema[i].Offset <= p
                    /\ p < HeaderSchema[i].Offset
                           + BinaryBits(HeaderSchema[i].Binary) \div 8}
    IN  IF rows = {} THEN 0
        ELSE LET i == CHOOSE r \in rows : TRUE
             IN  ByteOf(FieldValue(HeaderSchema[i].Type_Name),
                        p - HeaderSchema[i].Offset)

\* Byte q of the data region.  Stride k holds pixels k*ppf+1, k*ppf+2, ...,
\* then the exposure start 2k+2 and end 2k+3 (in ticks) and the tracking
\* number k+1, each in the low byte of its element.
DataByte(q) ==
    LET k == q \div FileStride
        r == q % FileStride
        w == DatatypeBits(hdr.datatype) \div 8
    IN  IF r < FileFrameBytes
        THEN IF r % w = 0
             THEN (k * hdr.xdim * hdr.ydim + r \div w + 1) % 256
             ELSE 0
        ELSE LET m == (r - FileFrameBytes) \div 8
             IN  IF (r - FileFrameBytes) % 8 # 0 THEN 0
                 ELSE IF m = 2 THEN (k + 1) % 256
                 ELSE (2 * k + 2 + m) % 256

\* byte p of the file (p < fileLen)
FileByte(p) ==
    IF hdr.XMLOffset # 0 /\ p >= hdr.XMLOffset
    THEN (IF footerText = "xml" THEN 60 ELSE 0)
    ELSE IF p < FileStart THEN HeaderByte(p)
    ELSE DataByte(p - FileStart)

\* objectify.fromstring on the bytes from offset to the end of the file:
\* it parses exactly a whole, well-formed footer
FooterParses(len, offset) ==
    /\ footerText = "xml"
    /\ offset = hdr.XMLOffset
    /\ len = offset + FooterLen

----------------------------------------------------------------------------
(* File._read_at: seek, then numpy.fromfile, which returns the whole       *)
(* elements the file still holds, at most size of them, and never raises.  *)

ElementsRead(len, offset, size, bits) ==
    IF offset < 0 \/ len <= offset \/ size <= 0 THEN 0
    ELSE Min(size, (len - offset) \div (bits \div bits_per_byte))

_read_at(len, offset, size, bits) ==
    LET w == bits \div bits_per_byte
    IN  [j \in 1..ElementsRead(len, offset, size, bits) |->
            DecodeLE([b \in 1..w |-> FileByte(offset + (j - 1) * w + b - 1)])]

----------------------------------------------------------------------------
(* File._load_header_metadata and File._load_footer_metadata.              *)

ReqSet == {spe_30_required_offsets[i] : i \in 1..Len(spe_30_required_offsets)}

\* header_metadata["Offset"]: the offsets of all rows
AllOffsets == {HeaderSchema[i].Offset : i \in 1..Len(HeaderSchema)}

\* the Value column before the loop over the required offsets: all NaN
UnsetTable == [o \in AllOffsets |-> NaN]

\* a row loop that sizes a read by the bytes up to the next row
ByteSpanRowSize(i) ==
    IF i < Len(HeaderSchema)
    THEN (HeaderSchema[i + 1].Offset - HeaderSchema[i].Offset)
             \div (BinaryBits(HeaderSchema[i].Binary) \div bits_per_byte)
    ELSE 1

\* the elements the row loop reads at row i: up to the next row's offset
\* less one, and one element for the last row
RowSize(i) ==
    IF i < Len(HeaderSchema)
    THEN HeaderSchema[i + 1].Offset - HeaderSchema[i].Offset - 1
    ELSE 1

offset_to_value(len) ==
    [o \in AllOffsets |->
        LET i == RowAt(o)
        IN  _read_at(len, o, RowSize(i), BinaryBits(HeaderSchema[i].Binary))]

\* len(offset_to_value[offset]): the elements the row at offset yielded
RowElements(len, o) ==
    LET i == RowAt(o)
    IN  ElementsRead(len, o, RowSize(i), BinaryBits(HeaderSchema[i].Binary))

TolerantHeaderReadable(len) == TRUE

\* offset_to_value[offset][0] exists for every required offset
HeaderReadable(len) ==
    \A o \in ReqSet :
        /\ \E i \in 1..Len(HeaderSchema) : HeaderSchema[i].Offset = o
        /\ RowElements(len, o) >= 1

\* the Value column after the loop over the required offsets
HeaderValues(len) ==
    [o \in AllOffsets |->
        IF o \in ReqSet /\ RowElements(len, o) >= 1
        THEN offset_to_value(len)[o][1]
        ELSE NaN]

\* the calls self.read_at(offset, size, ntype) of the row loop, in the
\* order of the rows of the table
HeaderReads ==
    [i \in 1..Len(HeaderSchema) |->
        [offset |-> HeaderSchema[i].Offset,
         size |-> RowSize(i),
         bits |-> BinaryBits(HeaderSchema[i].Binary)]]

\* the outcome of _load_footer_metadata for the decoded XML offset
FooterOutcome(len, offset) ==
    IF offset = 0 THEN "unset"
    ELSE IF FooterParses(len, offset) THEN "tree"
    ELSE "XMLSyntaxError"

----------------------------------------------------------------------------
(* The geometry getters, on the session's header table.                    *)

Value(name) == header_metadata[OffsetOf(name)]

\* a data region that starts at the lastvalue field itself
StartAtLastvalue == OffsetOf("lastvalue")

_get_start_offset == OffsetOf("lastvalue") + 2

_get_eof_offset == fileLen

get_pixels_per_frame == Value("xdim") * Value("ydim")

bits_per_pixel == DatatypeBits(Value("datatype"))

\* int(pixels_per_frame * (bits_per_pixel / bits_per_byte))
_get_bytes_per_frame == (get_pixels_per_frame * bits_per_pixel) \div bits_per_byte

\* metadata_ntype is numpy.int64
bits_per_metadata == BinaryBits("64s")

_get_bytes_per_metadata_elt == bits_per_metadata \div bits_per_byte

OneMetadataStride == _get_bytes_per_frame + _get_bytes_per_metadata_elt

_get_bytes_per_stride ==
    _get_bytes_per_frame + num_metadata * _get_bytes_per_metadata_elt

CeilNumFrames(eof_offset) ==
    (eof_offset - _get_start_offset + _get_bytes_per_stride - 1)
        \div _get_bytes_per_stride

\* (eof_offset - start_offset) // bytes_per_stride
NumFrames(eof_offset) ==
    PyFloorDiv(eof_offset - _get_start_offset, _get_bytes_per_stride)

_get_num_frames == NumFrames(_get_eof_offset)

----------------------------------------------------------------------------
(* Values of the session's variables.                                      *)

NoMeta == [time_stamp_exposure_started |-> 0,
           time_stamp_exposure_ended |-> 0,
           frame_tracking_number |-> 0]

NoCall == [idx |-> 0, live_eof |-> 0, eof |-> 0, n |-> 0, entry_idx |-> 0,
           reads |-> {}, frame |-> <<>>]

NoRet == [op |-> "none", kind |-> "none", err |-> "none", idx |-> 0,
          n |-> 0, entry_idx |-> 0, reads |-> {},
          frame |-> <<>>, metadata |-> NoMeta]

NoHeld == [valid |-> FALSE, idx |-> 0, ridx |-> 0, reads |-> {},
           frame |-> <<>>, metadata |-> NoMeta]

NoCount == [valid |-> FALSE, eof |-> 0, n |-> 0]

Raised(op, err) == [NoRet EXCEPT !.op = op, !.kind = "error", !.err = err]

\* the outcome of a _get_frame call that raises err
FrameRaised(c, err) ==
    [NoRet EXCEPT !.op = "get_frame", !.kind = "error", !.err = err,
                  !.idx = c.idx, !.n = c.n,
                  !.entry_idx = c.entry_idx, !.reads = c.reads]

----------------------------------------------------------------------------
(* The initial state: a file on disk and no session yet.                   *)

Geometries == {[xdim |-> 1, ydim |-> 1, datatype |-> 6],
               [xdim |-> 2, ydim |-> 2, datatype |-> 3]}

StrideOf(g) == g.xdim * g.ydim * (DatatypeBits(g.datatype) \div 8) + 3 * 8

\* lengths of a file cut inside its header: at, inside and just past each
\* required field
ShortLens ==
    {0} \cup UNION {LET o == HeaderSchema[i].Offset
                        w == BinaryBits(HeaderSchema[i].Binary) \div 8
                    IN  {o, o + w - 1, o + w} : i \in 1..Len(HeaderSchema)}

\* the header format file the process finds in its working directory: a
\* table pandas.read_csv parses, no file, or a file it cannot parse
Schemas == {"ok", "missing", "malformed"}

Init ==
    /\ \E g \in Geometries :
         \/ /\ hdr = [xdim |-> g.xdim, ydim |-> g.ydim,
                      datatype |-> g.datatype, XMLOffset |-> 0]
            /\ footerText = "none"
            /\ fileLen \in ShortLens \cup {FileStart}
         \/ \E j \in 0..MaxFrames :
              LET x == FileStart + j * StrideOf(g)
              IN  /\ hdr = [xdim |-> g.xdim, ydim |-> g.ydim,
                            datatype |-> g.datatype, XMLOffset |-> x]
                  /\ footerText \in {"xml", "garbage"}
                  /\ fileLen \in ShortLens \cup {x, x + FooterLen}
    /\ sess = "new"
    /\ header_metadata = UnsetTable
    /\ footer_metadata = "unset"
    /\ header_reads = <<>>
    /\ current_frame_idx = 0
    /\ pc = "idle"
    /\ call = NoCall
    /\ ret = NoRet
    /\ held = NoHeld
    /\ fresh = FALSE
    /\ prevCount = NoCount
    /\ lastCount = NoCount
    /\ schema \in Schemas
    /\ tempFile = FALSE
    /\ stream = "none"

----------------------------------------------------------------------------
(* The acquisition process.                                                *)

\* the bytes one write adds or one cut removes: a byte, a stride less a
\* byte, a whole stride (every length is reached by repeating them)
Chunks == {1, FileStride - 1, FileStride}

\* it appends k bytes of the data region to a file it has not finished
WriterAppend(k) ==
    /\ hdr.XMLOffset = 0
    /\ fileLen >= FileStart
    /\ fileLen + k <= MaxLen
    /\ fileLen' = fileLen + k
    /\ held' = NoHeld
    /\ fresh' = FALSE
    /\ UNCHANGED <<hdr, footerText, sessVars, current_frame_idx, pc, call,
                   ret, countVars, resVars>>

\* the file is cut by k bytes (the acquisition is restarted over it)
WriterTruncate(k) ==
    /\ hdr.XMLOffset = 0
    /\ fileLen - k >= FileStart - MaxUnder
    /\ fileLen' = fileLen - k
    /\ held' = NoHeld
    /\ fresh' = FALSE
    /\ UNCHANGED <<hdr, footerText, sessVars, current_frame_idx, pc, call,
                   ret, countVars, resVars>>

----------------------------------------------------------------------------
(* File.__init__: open the file, load the header, load the footer.  An     *)
(* exception leaves the caller without a session.                          *)

\* Whether the comment-stripped copy of the format file is on disk when
\* _load_header_metadata is left: a missing format file raises before the
\* copy is written; the copy is written, and read_csv raises on a
\* malformed one before os.remove is reached; otherwise it is removed.
TempAfterLoad ==
    CASE schema = "missing" -> tempFile
      [] schema = "malformed" -> TRUE
      [] OTHER -> FALSE

File_init ==
    /\ sess = "new"
    /\ current_frame_idx' = 0
    /\ stream' = "open"
    /\ tempFile' = TempAfterLoad
    /\ header_reads' = IF schema = "ok" THEN HeaderReads ELSE <<>>
    /\ IF schema = "missing"
       THEN /\ sess' = "failed"
            /\ ret' = Raised("__init__", "IOError")
            /\ UNCHANGED <<header_metadata, footer_metadata>>
       ELSE IF schema = "malformed"
       THEN /\ sess' = "failed"
            /\ ret' = Raised("__init__", "CParserError")
            /\ UNCHANGED <<header_metadata, footer_metadata>>
       ELSE IF ~HeaderReadable(fileLen)
       THEN /\ sess' = "failed"
            /\ ret' = Raised("__init__", "IndexError")
            /\ UNCHANGED <<header_metadata, footer_metadata>>
       ELSE LET hv == HeaderValues(fileLen)
                fo == FooterOutcome(fileLen, hv[OffsetOf("XMLOffset")])
            IN  IF fo = "XMLSyntaxError"
                THEN /\ sess' = "failed"
                     /\ ret' = Raised("__init__", "XMLSyntaxError")
                     /\ UNCHANGED <<header_metadata, footer_metadata>>
                ELSE /\ sess' = "open"
                     /\ header_metadata' = hv
                     /\ footer_metadata' = fo
                     /\ ret' = [NoRet EXCEPT !.op = "__init__", !.kind = "ok"]
    /\ UNCHANGED <<fileVars, schema, pc, call, held, fresh, countVars>>

\* File.close, called by the caller between two calls
close ==
    /\ sess = "open"
    /\ pc = "idle"
    /\ stream' = "closed"
    /\ sess' = "closed"
    /\ ret' = [NoRet EXCEPT !.op = "close", !.kind = "ok"]
    /\ UNCHANGED <<fileVars, header_metadata, footer_metadata, header_reads,
                   current_frame_idx, pc, call, held, fresh, countVars,
                   schema, tempFile>>

\* File.__del__: the interpreter finalises the object once the caller holds
\* no reference to it: after a constructor that raised, after close, or
\* when the caller drops an open session (closing a closed stream is a
\* no-op)
File_del ==
    /\ sess \in {"open", "failed", "closed"}
    /\ pc = "idle"
    /\ stream' = "closed"
    /\ sess' = "deleted"
    /\ UNCHANGED <<fileVars, header_metadata, footer_metadata, header_reads,
                   current_frame_idx, pc, call, ret, held, fresh, countVars,
                   schema, tempFile>>

\* File.get_footer_metadata: return the attribute, which exists only if
\* _load_footer_metadata set it
get_footer_metadata ==
    /\ sess = "open"
    /\ pc = "idle"
    /\ ret' = IF footer_metadata = "unset"
              THEN Raised("get_footer_metadata", "AttributeError")
              ELSE [NoRet EXCEPT !.op = "get_footer_metadata", !.kind = "ok"]
    /\ UNCHANGED <<fileVars, sessVars, current_frame_idx, pc, call, held,
                   fresh, countVars, resVars>>

\* File._get_num_frames, called by the caller
get_num_frames ==
    /\ sess = "open"
    /\ pc = "idle"
    /\ prevCount' = lastCount
    /\ lastCount' = [valid |-> TRUE, eof |-> _get_eof_offset,
                     n |-> _get_num_frames]
    /\ UNCHANGED <<fileVars, sessVars, current_frame_idx, pc, call, ret, held,
                   fresh, resVars>>

----------------------------------------------------------------------------
(* File._get_frame, in the three steps between which the file may change:  *)
(* count the frames and resolve the index; read the pixels; read the       *)
(* metadata and return.                                                    *)

FrameIdxs == -MaxIdx..MaxIdx

TruncResolveIndex(frame_idx, num_frames) == TruncMod(frame_idx, num_frames)

ClampResolveIndex(frame_idx, num_frames) ==
    IF frame_idx < 0 THEN 0
    ELSE IF frame_idx >= num_frames THEN num_frames - 1
    ELSE frame_idx

\* int(frame_idx % num_frames), for num_frames # 0
ResolveIndex(frame_idx, num_frames) == PyMod(frame_idx, num_frames)

\* frame.reshape((ydim, xdim)): row-major
Reshape(flat, ydim, xdim) ==
    [r \in 1..ydim |-> [c \in 1..xdim |-> flat[(r - 1) * xdim + c]]]

frame_offset == _get_start_offset + current_frame_idx * _get_bytes_per_stride

metadata_offset == frame_offset + _get_bytes_per_frame

\* datetime.utcfromtimestamp(file_ctime + ticks / ticks_per_second), in
\* microseconds since the epoch
Timestamp(ticks) == FileCtime * ticks_per_second + ticks

GetFrameBegin(frame_idx) ==
    /\ sess = "open"
    /\ pc = "idle"
    /\ LET eof == _get_eof_offset
           n == NumFrames(eof)
           c == [NoCall EXCEPT !.idx = frame_idx, !.live_eof = fileLen,
                               !.eof = eof, !.n = n,
                               !.entry_idx = current_frame_idx]
       IN  /\ fresh' = TRUE
           /\ held' = IF ret.op = "get_frame" /\ ret.kind = "ok" /\ fresh
                      THEN [valid |-> TRUE, idx |-> ret.idx,
                            ridx |-> current_frame_idx, reads |-> ret.reads,
                            frame |-> ret.frame, metadata |-> ret.metadata]
                      ELSE NoHeld
           /\ IF n = 0
              THEN /\ ret' = FrameRaised(c, "ZeroDivisionError")
                   /\ UNCHANGED <<current_frame_idx, pc, call>>
              ELSE /\ current_frame_idx' = ResolveIndex(frame_idx, n)
                   /\ pc' = "readPixels"
                   /\ call' = c
                   /\ ret' = [NoRet EXCEPT !.op = "get_frame",
                                           !.kind = "pending"]
    /\ UNCHANGED <<fileVars, sessVars, countVars, resVars>>

GetFrameReadPixels ==
    /\ pc = "readPixels"
    /\ LET flat == _read_at(fileLen, frame_offset, get_pixels_per_frame,
                            bits_per_pixel)
           c == [call EXCEPT !.reads = @ \cup
                     {<<frame_offset, frame_offset + _get_bytes_per_frame>>}]
       IN  IF Len(flat) # get_pixels_per_frame
           THEN /\ ret' = FrameRaised(c, "ValueError")
                /\ pc' = "idle"
                /\ call' = NoCall
           ELSE /\ call' = [c EXCEPT !.frame =
                               Reshape(flat, Value("ydim"), Value("xdim"))]
                /\ pc' = "readMeta"
                /\ UNCHANGED ret
    /\ UNCHANGED <<fileVars, sessVars, current_frame_idx, held, fresh,
                   countVars, resVars>>

GetFrameReadMeta ==
    /\ pc = "readMeta"
    /\ LET b == _get_bytes_per_metadata_elt
           o1 == metadata_offset
           o2 == o1 + b
           o3 == o2 + b
           m1 == _read_at(fileLen, o1, 1, bits_per_metadata)
           m2 == _read_at(fileLen, o2, 1, bits_per_metadata)
           m3 == _read_at(fileLen, o3, 1, bits_per_metadata)
           c == [call EXCEPT !.reads = @ \cup
                     {<<o1, o1 + b>>, <<o2, o2 + b>>, <<o3, o3 + b>>}]
       IN  IF Len(m1) = 0 \/ Len(m2) = 0 \/ Len(m3) = 0
           THEN ret' = FrameRaised(c, "IndexError")
           ELSE ret' = [NoRet EXCEPT
                    !.op = "get_frame", !.kind = "ok",
                    !.idx = c.idx, !.n = c.n,
                    !.entry_idx = c.entry_idx, !.reads = c.reads,
                    !.frame = c.frame,
                    !.metadata =
                       [time_stamp_exposure_started |-> Timestamp(m1[1]),
                        time_stamp_exposure_ended |-> Timestamp(m2[1]),
                        frame_tracking_number |-> m3[1]]]
    /\ pc' = "idle"
    /\ call' = NoCall
    /\ UNCHANGED <<fileVars, sessVars, current_frame_idx, held, fresh,
                   countVars, resVars>>

----------------------------------------------------------------------------
(* Specifications.                                                         *)

\* a caller that reads frames and the footer while the file grows
Next ==
    \/ File_init
    \/ get_footer_metadata
    \/ \E i \in FrameIdxs : GetFrameBegin(i)
    \/ GetFrameReadPixels
    \/ GetFrameReadMeta
    \/ \E k \in Chunks : WriterAppend(k)

Spec == Init /\ [][Next]_vars

\* a caller that counts the frames while the file grows
NextCount ==
    \/ File_init
    \/ get_num_frames
    \/ \E k \in Chunks : WriterAppend(k)

SpecCount == Init /\ [][NextCount]_vars

\* a caller that reads frames of a file that may also be cut
NextTrunc ==
    \/ Next
    \/ \E k \in Chunks : WriterTruncate(k)

SpecTrunc == Init /\ [][NextTrunc]_vars

\* a caller that builds a session, reads frames of a file at rest, and ends
\* the session by close or by dropping it
NextLife ==
    \/ File_init
    \/ \E i \in FrameIdxs : GetFrameBegin(i)
    \/ GetFrameReadPixels
    \/ GetFrameReadMeta
    \/ close
    \/ File_del

SpecLife == Init /\ [][NextLife]_vars

----------------------------------------------------------------------------
(* What the file holds, for the statements below.                          *)

\* the complete frames in a file of len bytes (len >= FileStart)
FileFrames(len) == (len - FileStart) \div FileStride

\* the stride of frame k in the file: [StrideLo(k), StrideLo(k + 1))
StrideLo(k) == FileStart + k * FileStride

\* the last required header offset
LastRequiredOffset == spe_30_required_offsets[Len(spe_30_required_offsets)]

FrameReturned == pc = "idle" /\ ret.op = "get_frame" /\ ret.kind = "ok"

FrameFailed == pc = "idle" /\ ret.op = "get_frame" /\ ret.kind = "error"

----------------------------------------------------------------------------
(* C1: the frame count never exceeds floor((byte_length - start_offset) /  *)
(* bytes_per_stride) and is exactly 0 whenever byte_length < start_offset  *)
(* + bytes_per_stride, also when byte_length < start_offset.  Stated of    *)
(* the count a _get_frame call has just taken from the end-of-file offset  *)
(* it read.  The code gives -1 for a file shorter than start_offset.       *)
C1_CountBoundedAndZeroWhenShort ==
    pc # "idle" =>
        /\ call.n <= (call.eof - FileStart) \div FileStride
        /\ call.eof < FileStart + FileStride => call.n = 0

----------------------------------------------------------------------------
(* C2: while the file only grows, a frame read counts the frames from the  *)
(* end-of-file offset it reads itself, and every byte range it reads lies  *)
(* inside one stride that ends at or before that offset: a partially       *)
(* written trailing frame is never read.                                   *)
C2_ReadsInsideSeenFile ==
    /\ pc # "idle" =>
        /\ call.eof = call.live_eof
        /\ call.eof <= fileLen
        /\ call.n = FileFrames(call.eof)
        /\ current_frame_idx >= 0
        /\ StrideLo(current_frame_idx + 1) <= call.eof
        /\ \A r \in call.reads :
              /\ StrideLo(current_frame_idx) <= r[1]
              /\ r[2] <= StrideLo(current_frame_idx + 1)
    /\ FrameReturned =>
        /\ StrideLo(current_frame_idx + 1) <= fileLen
        /\ \A r \in ret.reads :
              /\ StrideLo(current_frame_idx) <= r[1]
              /\ r[2] <= StrideLo(current_frame_idx + 1)

\* a read is under way of the last complete frame while the writer has
\* already started the next one
C2_Witness ==
    /\ pc = "readMeta"
    /\ call.reads # {}
    /\ current_frame_idx = call.n - 1
    /\ fileLen > call.eof
    /\ (fileLen - FileStart) % FileStride # 0

----------------------------------------------------------------------------
(* C3: on a file of n > 0 frames that does not change between two calls,   *)
(* read_frame(i) and read_frame(i + k*n) return the same pixels and the    *)
(* same metadata.  held is the frame of the earlier call, kept only while  *)
(* the file is unchanged.                                                  *)
C3_CongruentIndicesSameFrame ==
    (/\ FrameReturned
     /\ held.valid
     /\ ret.n > 0
     /\ (ret.idx - held.idx) % ret.n = 0)
    => /\ ret.frame = held.frame
       /\ ret.metadata = held.metadata

\* with two frames, read_frame(-1) after read_frame(1), and read_frame(2)
\* after read_frame(0)
C3_Witness ==
    /\ FrameReturned
    /\ held.valid
    /\ ret.n = 2
    /\ \/ held.idx = 1 /\ ret.idx = -1
       \/ held.idx = 0 /\ ret.idx = 2
    /\ ret.frame # <<>>

----------------------------------------------------------------------------
(* C4: with n > 0 frames every index is accepted and resolved into 0..n-1; *)
(* an index in -n..-1 counts from the end (n + i), one in 0..n-1 is itself; *)
(* the last-read index after the call is the resolved index, and the frame *)
(* returned is the frame at that index of the file.                        *)
C4_IndexResolved ==
    /\ (pc = "idle" /\ ret.op = "get_frame" /\ ret.n > 0) => ret.kind = "ok"
    /\ FrameReturned =>
        /\ ret.n > 0
        /\ current_frame_idx \in 0..(ret.n - 1)
        /\ (ret.idx - current_frame_idx) % ret.n = 0
        /\ ret.idx \in (-ret.n)..(-1) => current_frame_idx = ret.n + ret.idx
        /\ ret.idx \in 0..(ret.n - 1) => current_frame_idx = ret.idx
        /\ ret.metadata.frame_tracking_number = current_frame_idx + 1

\* read_frame(-n) with n = 2 returned frame 0
C4_Witness ==
    /\ FrameReturned
    /\ ret.n = 2
    /\ ret.idx = -2
    /\ current_frame_idx = 0

----------------------------------------------------------------------------
(* C5: between two counts of a file that was at or beyond start_offset at  *)
(* the first, one more complete stride raises the count by exactly 1 and a *)
(* partial stride (1 .. bytes_per_stride - 1 bytes) leaves it unchanged.   *)
(* The second half fails when the partial stride completes a trailing      *)
(* partial frame.                                                          *)
C5_Original ==
    (prevCount.valid /\ lastCount.valid /\ prevCount.eof >= FileStart) =>
        LET grown == lastCount.eof - prevCount.eof
        IN  /\ grown = FileStride => lastCount.n = prevCount.n + 1
            /\ grown \in 1..(FileStride - 1) => lastCount.n = prevCount.n

\* C5 as amended: a partial stride leaves the count unchanged when the
\* bytes of the trailing partial frame plus the appended bytes stay below
\* bytes_per_stride, and raises it by exactly 1 otherwise.
C5_Amended ==
    (prevCount.valid /\ lastCount.valid /\ prevCount.eof >= FileStart) =>
        LET grown == lastCount.eof - prevCount.eof
            trailing == (prevCount.eof - FileStart) % FileStride
        IN  /\ grown = FileStride => lastCount.n = prevCount.n + 1
            /\ grown \in 1..(FileStride - 1) =>
                  lastCount.n = prevCount.n
                      + (IF trailing + grown >= FileStride THEN 1 ELSE 0)

\* a partial stride was appended to a file that ended in a partial frame,
\* and a whole stride to another
C5_Witness ==
    /\ prevCount.valid
    /\ lastCount.valid
    /\ prevCount.eof >= FileStart
    /\ (prevCount.eof - FileStart) % FileStride # 0
    /\ lastCount.eof - prevCount.eof \in 1..FileStride
    /\ lastCount.n = prevCount.n + 1

----------------------------------------------------------------------------
(* C6: when the file holds no complete frame, read_frame(i) ends in one    *)
(* error for every i: no frame is returned, nothing is read, the last-read *)
(* index is the one before the call and the session stays open.            *)
C6_NoFramesOneError ==
    (/\ pc = "idle"
     /\ ret.op = "get_frame"
     /\ fresh
     /\ fileLen < FileStart + FileStride)
    => /\ ret.kind = "error"
       /\ ret.err = "ZeroDivisionError"
       /\ ret.reads = {}
       /\ ret.frame = <<>>
       /\ current_frame_idx = ret.entry_idx
       /\ sess = "open"

\* read_frame(-1) failed on a file that holds only a part of its first frame
C6_Witness ==
    /\ pc = "idle"
    /\ ret.op = "get_frame"
    /\ ret.err = "ZeroDivisionError"
    /\ ret.idx = -1
    /\ fresh
    /\ fileLen > FileStart

----------------------------------------------------------------------------
(* C7: a frame read that runs past the live end of the file fails, returns *)
(* no frame and leaves the last-read index as it was before the call.  The *)
(* code assigns the index before it reads.                                 *)
C7_FailedReadKeepsIndex ==
    (FrameFailed /\ ret.reads # {}) =>
        /\ ret.frame = <<>>
        /\ current_frame_idx = ret.entry_idx

----------------------------------------------------------------------------
(* C8: a file shorter than the last required header offset never yields a  *)
(* session: construction fails and no header table is returned.  (A file   *)
(* cut inside its header does not grow, so fileLen is its length at        *)
(* construction.)                                                          *)
C8_TruncatedHeaderFails ==
    (sess # "new" /\ fileLen < LastRequiredOffset) =>
        /\ sess = "failed"
        /\ ret.op = "__init__"
        /\ ret.kind = "error"
        /\ header_metadata = UnsetTable

\* construction failed on a file cut between two required fields
C8_Witness ==
    /\ sess = "failed"
    /\ fileLen > 0
    /\ fileLen < LastRequiredOffset
    /\ ret.err = "IndexError"

----------------------------------------------------------------------------
(* C9: with an XML offset of 0 the session is built with the footer        *)
(* absent, and every later footer access reports that and never raises.    *)
(* The code never sets the attribute, so the access raises.                *)
C9_AbsentFooterNeverRaises ==
    (sess = "open" /\ hdr.XMLOffset = 0) =>
        /\ footer_metadata = "unset"
        /\ ret.op = "get_footer_metadata" => ret.kind = "ok"

----------------------------------------------------------------------------
(* C10: with a non-zero XML offset and a footer that does not parse, the   *)
(* session is still built, with the footer absent.  The code lets the      *)
(* parse error leave the constructor.                                      *)
C10_MalformedFooterRecovers ==
    (/\ sess # "new"
     /\ schema = "ok"
     /\ fileLen >= FileStart
     /\ hdr.XMLOffset # 0
     /\ ~FooterParses(fileLen, hdr.XMLOffset))
    => /\ sess = "open"
       /\ footer_metadata = "unset"

----------------------------------------------------------------------------
(* C11: whenever a session has ended (the object is finalised, after a     *)
(* constructor that raised, after close, or after the caller dropped it),  *)
(* the byte stream is closed and the comment-stripped copy of the header   *)
(* format file is not on disk.  The stream is closed by __del__ on every   *)
(* path; the copy stays on disk when read_csv raises on it, as os.remove   *)
(* follows read_csv without a finally.                                     *)
C11_ResourcesReleased ==
    sess = "deleted" => (stream = "closed" /\ ~tempFile)

----------------------------------------------------------------------------
----------------------------------------------------------------------------
(* C13: a returned frame of resolved index r was read as four byte ranges: *)
(* the pixels at frame_offset = start_offset + r * bytes_per_stride, with  *)
(* start_offset the offset of lastvalue plus 2, and the exposure start,    *)
(* the exposure end and the tracking number, 8 bytes each, at frame_offset *)
(* + bytes_per_frame, + 8 more and + 16 more.  With bytes_per_stride =     *)
(* bytes_per_frame + 3 * 8 every byte of the stride lies in exactly one of *)
(* the four ranges, and the ranges read for two different resolved indices *)
(* of one file do not overlap.                                             *)
C13_StrideLayout ==
    FrameReturned =>
        LET r == current_frame_idx
            start == OffsetOf("lastvalue") + 2
            bpf == FileFrameBytes
            stride == bpf + 3 * 8
            fo == start + r * stride
            mo == fo + bpf
        IN  /\ r \in 0..(ret.n - 1)
            /\ ret.reads = {<<fo, mo>>, <<mo, mo + 8>>, <<mo + 8, mo + 16>>,
                            <<mo + 16, mo + 24>>}
            /\ \A b \in fo..(fo + stride - 1) :
                  Cardinality({x \in ret.reads : x[1] <= b /\ b < x[2]}) = 1
            /\ \A x \in ret.reads : fo <= x[1] /\ x[2] <= fo + stride
            /\ ret.frame[1][1] = (r * hdr.xdim * hdr.ydim + 1) % 256
            /\ ret.metadata.time_stamp_exposure_started = Timestamp(2 * r + 2)
            /\ ret.metadata.time_stamp_exposure_ended = Timestamp(2 * r + 3)
            /\ ret.metadata.frame_tracking_number = r + 1
            /\ (held.valid /\ held.ridx # r) =>
                  \A x \in held.reads : \A y \in ret.reads :
                      x[2] <= y[1] \/ y[2] <= x[1]

\* frame 1 of a 2x2 file was returned right after frame 0 of the same file
C13_Witness ==
    /\ FrameReturned
    /\ held.valid
    /\ held.ridx = 0
    /\ current_frame_idx = 1
    /\ Cardinality(held.reads) = 4
    /\ Cardinality(ret.reads) = 4
    /\ hdr.xdim = 2

====
